---- MODULE Spec2Model ----
(***************************************************************************)
(* Model of the job pipeline engine of ffmpeg-service (src/app.py): the    *)
(* staging area under TEMP_DIR, the /full-pipeline, /probe, /merge,        *)
(* /concat, /resize and /trim handlers, the external engine invocations    *)
(* they make, and the /cleanup, /cleanup-all and /download endpoints that  *)
(* run concurrently with them.                                             *)
(***************************************************************************)
EXTENDS Integers, Sequences, FiniteSets, TLC

\* Concurrent in-flight requests.
Reqs == {"r1", "r2"}

\* Values str(uuid.uuid4())[:8] can take.
JobIds == {"j1", "j2"}

\* Number of /cleanup and /cleanup-all requests issued during a run.
MaxCleanups == 2

\* Longest "videos" list of a /concat request.
MaxClips == 3

VARIABLES
    dirs,       \* job directories that exist under TEMP_DIR
    fs,         \* fs[j][name]: content of TEMP_DIR/j/name, NoFile when absent
    op,         \* op[r]: the endpoint request r was sent to
    pc,         \* pc[r]: position of request r in its handler
    data,       \* data[r]: request.json of request r
    job_id,     \* job_id[r]: the handler's local job_id
    current_video,   \* current_video[r]: name the pointer refers to
    steps_completed, \* steps_completed[r]: the handler's step log
    eng,        \* eng[r]: state of the subprocess the request waits for
    resp,       \* resp[r]: HTTP status of the response, 0 while none
    hist,       \* hist[r]: outcomes of the steps the request has taken
    good,       \* good[r]: content produced by its last successful step
    copied,     \* copied[r]: content shutil.copy wrote to the final artifact
    ncleanup,   \* cleanup requests issued so far
    last,       \* the latest cleanup or download request and its response
    cmd,        \* cmd[r]: the engine arguments the handler has built
    input_files, \* input_files[r]: the clips /concat has resolved so far
    sweep,      \* the /cleanup-all request in progress, NoSweep when none
    disposed,   \* job ids a /cleanup request has removed
    host        \* the file tree around the staging root

vars == <<dirs, fs, op, pc, data, job_id, current_video, steps_completed,
          eng, resp, hist, good, copied, ncleanup, last, cmd, input_files, sweep,
          disposed, host>>

(***************************************************************************)
(* Staging area                                                            *)
(***************************************************************************)
NoFile == <<>>

final_path(j) == "final_" \o j \o ".mp4"

\* str(i) of a natural number.
RECURSIVE str(_)
str(i) ==
    LET digit == <<"0", "1", "2", "3", "4", "5", "6", "7", "8", "9">>
    IN  IF i < 10 THEN digit[i + 1] ELSE str(i \div 10) \o digit[(i % 10) + 1]

\* job_dir / f"input_{i}.mp4" of /concat.
input_path(i) == "input_" \o str(i) \o ".mp4"

\* The role prefix of the output of each single-step endpoint.
prefix ==
    [merge |-> "merged", concat |-> "concat", resize |-> "resized",
     trim |-> "trimmed"]

\* job_dir / f"merged_{job_id}.mp4", f"concat_{job_id}.mp4", ...
output_path(o, j) == prefix[o] \o "_" \o j \o ".mp4"

FileNames ==
    {"01_video.mp4", "tts_audio.mp3", "02_merged.mp4", "music.mp3",
     "03_with_music.mp4", "subtitles.srt", "04_subtitled.mp4",
     "05_resized.mp4", "06_normalized.mp4", "probe_file"}
    \cup {final_path(j) : j \in JobIds}
    \cup {"input_video.mp4", "input_audio.mp3", "inputs.txt"}
    \cup {input_path(i) : i \in 0..(MaxClips - 1)}
    \cup {output_path(o, j) : o \in DOMAIN prefix, j \in JobIds}

EmptyDir == [n \in FileNames |-> NoFile]

\* job_dir.mkdir(exist_ok=True): the directory exists afterwards, and a
\* directory that existed keeps its files.
get_job_dir(d, j) == d \cup {j}

\* open(path, 'wb') and an engine output both need the parent directory.
CanWrite(j) == j \in dirs

Exists(j, n) == j \in dirs /\ fs[j][n] # NoFile

\* Mutant: every write goes to the path of the primary input video.
WriteFile_in_place(j, n, c) == [fs EXCEPT ![j]["01_video.mp4"] = c]

WriteFile(j, n, c) == [fs EXCEPT ![j][n] = c]

\* shutil.rmtree(job_dir)
rmtree(f, j) == [f EXCEPT ![j] = EmptyDir]

(***************************************************************************)
(* Requests                                                                *)
(***************************************************************************)
presets ==
    {"youtube_shorts", "tiktok", "instagram_reels", "instagram_feed",
     "youtube_long"}

\* Request bodies of /full-pipeline; "" is an absent (falsy) field.
AllBodies ==
    [video_job_id : {"", "abc123"},
     audio_base64 : {"", "b64", "malformed"},
     background_music_url : {"", "url"},
     subtitles : {"", "srt"},
     platform : {"", "youtube_shorts", "fax"},
     normalize : BOOLEAN]

Body(v, a, m, s, p, n) ==
    [video_job_id |-> v, audio_base64 |-> a, background_music_url |-> m,
     subtitles |-> s, platform |-> p, normalize |-> n]

\* The request bodies used when two requests run concurrently: no video
\* reference; the narration, a preset and normalisation; music, subtitles
\* and a platform that is no preset; a narration that does not decode.
Bodies ==
    {Body("", "b64", "", "", "", FALSE),
     Body("abc123", "b64", "", "", "youtube_shorts", TRUE),
     Body("abc123", "", "url", "srt", "fax", FALSE),
     Body("abc123", "malformed", "", "srt", "", TRUE)}

\* Request bodies of /probe.
ProbeBodies ==
    {[url |-> "url", job_id |-> ""],
     [url |-> "", job_id |-> "abc123"],
     [url |-> "", job_id |-> ""]}

NoBody ==
    [video_job_id |-> "", audio_base64 |-> "", background_music_url |-> "",
     subtitles |-> "", platform |-> "", normalize |-> FALSE]

\* subprocess.run(cmd, timeout=timeout) under run_ffmpeg: the process exits
\* with status 0, exits with another status, or is still running when the
\* timeout expires, and then subprocess.TimeoutExpired is raised.
run_ffmpeg(o) ==
    [raised |-> o = "timeout", success |-> o = "exit0"]

\* Mutant: the pointer moves to the step's output whatever the result.
advance_always(result, cur, out) == out

\* if result['success']: current_video = <output>
advance(result, cur, out) == IF result.success THEN out ELSE cur

\* Mutant: the step is logged whatever the result.
log_step_always(result, log, name) == Append(log, name)

\* if result['success']: steps_completed.append(<name>)
log_step(result, log, name) == IF result.success THEN Append(log, name) ELSE log

\* The conditions that select the next step of full_pipeline.
to_final(b) == "final"
to_normalize(b) == IF b.normalize THEN "norm" ELSE to_final(b)
to_resize(b) ==
    IF b.platform # "" /\ b.platform \in presets THEN "resize" ELSE to_normalize(b)
to_subtitles(b) == IF b.subtitles # "" THEN "subs" ELSE to_resize(b)
to_music(b) == IF b.background_music_url # "" THEN "music" ELSE to_subtitles(b)
to_merge(b) == IF b.audio_base64 # "" THEN "merge" ELSE to_music(b)

\* return jsonify(...), <status>: the handler is over.
Respond(r, status) ==
    /\ resp' = [resp EXCEPT ![r] = status]
    /\ pc' = [pc EXCEPT ![r] = "done"]
    /\ eng' = [eng EXCEPT ![r] = "idle"]

Note(r, step, res) == hist' = [hist EXCEPT ![r] = Append(@, <<step, res>>)]

\* A response of /cleanup, /cleanup-all or /download: the status, the
\* "success" key of the JSON body ("absent" when the body has none), the
\* "cleaned" count and the file sent.
Reply(o, j, n, st, c, fl, bd) ==
    [op |-> o, id |-> j, name |-> n, status |-> st, cleaned |-> c,
     success |-> fl, body |-> bd]

NoRequest == Reply("none", "none", "none", 0, 0, "absent", NoFile)

NoCmd == <<>>

\* Files that live next to the staging root, in /tmp.
OutsideFiles == {"other.mp4"}

\* The tree around the staging root after TEMP_DIR.mkdir(exist_ok=True):
\* TEMP_DIR exists, and /tmp holds the files of other programs.
NoDamage == [root |-> TRUE, tmp |-> OutsideFiles]

NoSweep == [items |-> {}, count |-> 0, active |-> FALSE, listed |-> {},
            created |-> {}, probed |-> {}, ncleanup |-> 0]

Init ==
    /\ dirs = {}
    /\ fs = [j \in JobIds |-> EmptyDir]
    /\ op = [r \in Reqs |-> "none"]
    /\ pc = [r \in Reqs |-> "idle"]
    /\ data = [r \in Reqs |-> NoBody]
    /\ job_id = [r \in Reqs |-> "none"]
    /\ current_video = [r \in Reqs |-> "none"]
    /\ steps_completed = [r \in Reqs |-> <<>>]
    /\ eng = [r \in Reqs |-> "idle"]
    /\ resp = [r \in Reqs |-> 0]
    /\ hist = [r \in Reqs |-> <<>>]
    /\ good = [r \in Reqs |-> NoFile]
    /\ copied = [r \in Reqs |-> NoFile]
    /\ ncleanup = 0
    /\ last = NoRequest
    /\ cmd = [r \in Reqs |-> NoCmd]
    /\ input_files = [r \in Reqs |-> <<>>]
    /\ sweep = NoSweep
    /\ disposed = {}
    /\ host = NoDamage

(***************************************************************************)
(* /full-pipeline                                                          *)
(***************************************************************************)
\* job_id = str(uuid.uuid4())[:8]; job_dir = get_job_dir(job_id); then the
\* check of video_job_id.
full_pipeline_create(r, b) ==
    /\ pc[r] = "idle"
    /\ \E j \in JobIds :
        /\ op' = [op EXCEPT ![r] = "full-pipeline"]
        /\ data' = [data EXCEPT ![r] = b]
        /\ job_id' = [job_id EXCEPT ![r] = j]
        /\ dirs' = get_job_dir(dirs, j)
        /\ IF b.video_job_id = ""
           THEN /\ Respond(r, 400)
                /\ Note(r, "download_video", "missing_source")
           ELSE /\ pc' = [pc EXCEPT ![r] = "download"]
                /\ UNCHANGED <<resp, eng, hist>>
    /\ UNCHANGED <<fs, current_video, steps_completed, good, copied, ncleanup,
                   last, cmd, input_files, sweep, disposed, host>>

\* download_file(url, dest_path): requests.get / raise_for_status raise on a
\* failed fetch; open(dest_path, 'wb') raises when the directory is gone.
download_file(fetched, j) ==
    IF ~fetched THEN "fetch_error"
    ELSE IF ~CanWrite(j) THEN "io_error"
    ELSE "ok"

\* Mutant: the log starts empty.
initial_steps_empty == <<>>

\* steps_completed = ["download_video"]
initial_steps == <<"download_video">>

\* download_file(url, video_path); current_video = video_path;
\* steps_completed = ["download_video"]
full_pipeline_download(r) ==
    /\ pc[r] = "download"
    /\ \E fetched \in BOOLEAN :
        LET res == download_file(fetched, job_id[r])
            c == <<r, "download_video">>
        IN  /\ Note(r, "download_video", res)
            /\ IF res = "ok"
               THEN /\ fs' = WriteFile(job_id[r], "01_video.mp4", c)
                    /\ current_video' = [current_video EXCEPT ![r] = "01_video.mp4"]
                    /\ steps_completed' =
                        [steps_completed EXCEPT ![r] = initial_steps]
                    /\ good' = [good EXCEPT ![r] = c]
                    /\ pc' = [pc EXCEPT ![r] = to_merge(data[r])]
                    /\ UNCHANGED <<resp, eng>>
               ELSE /\ Respond(r, 500)
                    /\ UNCHANGED <<fs, current_video, steps_completed, good>>
    /\ UNCHANGED <<dirs, op, data, job_id, copied, ncleanup, last, cmd,
                   input_files, sweep, disposed, host>>

\* save_base64_file(data['audio_base64'], audio_path): open(dest_path, 'wb')
\* raises when the directory is gone, base64.b64decode raises on a payload
\* that does not decode.
save_base64_file(payload, j) ==
    IF ~CanWrite(j) THEN "io_error"
    ELSE IF payload = "malformed" THEN "decode_error"
    ELSE "ok"

\* An engine run can end with status 0 only if it can read its inputs and
\* create its output.
CanProduce(j, inputs) == CanWrite(j) /\ \A n \in inputs : Exists(j, n)

\* 2. the narration is written to tts_audio.mp3 and the merge is started.
full_pipeline_merge(r) ==
    /\ pc[r] = "merge"
    /\ LET res == save_base64_file(data[r].audio_base64, job_id[r])
       IN  IF res = "ok"
           THEN /\ fs' = WriteFile(job_id[r], "tts_audio.mp3", <<r, "tts">>)
                /\ pc' = [pc EXCEPT ![r] = "merge_run"]
                /\ eng' = [eng EXCEPT ![r] = "running"]
                /\ UNCHANGED <<resp, hist>>
           ELSE /\ Note(r, "merge_tts", res)
                /\ Respond(r, 500)
                /\ fs' = IF res = "decode_error"
                         THEN WriteFile(job_id[r], "tts_audio.mp3", <<r, "empty">>)
                         ELSE fs
    /\ UNCHANGED <<dirs, op, data, job_id, current_video, steps_completed,
                   good, copied, ncleanup, last, cmd, input_files, sweep, disposed, host>>

\* Mutant: a failed merge is treated like a failed optional step.
merge_continues(result) == FALSE

\* if not result['success']: return ... "Merge failed" ..., 500
merge_aborts(result) == ~result.success

\* The outcomes of the subprocess a request waits for: "exit0" needs the
\* engine to have read its inputs and written its output; a process that
\* hangs can only be ended by the timeout.
EngineOutcomes(r, inputs) ==
    {o \in {"exit0", "exit1", "timeout"} :
        /\ o = "exit0" => eng[r] = "running" /\ CanProduce(job_id[r], inputs)
        /\ o = "exit1" => eng[r] = "running"}

\* What the handler does with the result of run_ffmpeg(cmd) for the step
\* `name` that writes `out`: TimeoutExpired leaves through the handler's
\* except clause; a failed mandatory step returns 500; otherwise the pointer
\* and the log follow result['success'] and the next step is taken.
after_engine(r, name, out, inputs, mandatory, next) ==
    \E o \in EngineOutcomes(r, inputs) :
        LET result == run_ffmpeg(o)
            c == Append(fs[job_id[r]][current_video[r]], name)
        IN  /\ Note(r, name, o)
            /\ fs' = IF o = "exit0" THEN WriteFile(job_id[r], out, c) ELSE fs
            /\ good' = [good EXCEPT ![r] = IF o = "exit0" THEN c ELSE @]
            /\ IF result.raised \/ (mandatory /\ merge_aborts(result))
               THEN /\ Respond(r, 500)
                    /\ UNCHANGED <<current_video, steps_completed>>
               ELSE /\ current_video' =
                        [current_video EXCEPT ![r] = advance(result, @, out)]
                    /\ steps_completed' =
                        [steps_completed EXCEPT ![r] = log_step(result, @, name)]
                    /\ pc' = [pc EXCEPT ![r] = next]
                    /\ eng' = [eng EXCEPT ![r] = "idle"]
                    /\ UNCHANGED resp

\* result = run_ffmpeg(cmd) of the merge, and what follows it.
full_pipeline_merge_done(r) ==
    /\ pc[r] = "merge_run"
    /\ after_engine(r, "merge_tts", "02_merged.mp4",
                    {current_video[r], "tts_audio.mp3"}, TRUE, to_music(data[r]))
    /\ UNCHANGED <<dirs, op, data, job_id, copied, ncleanup, last, cmd,
                   input_files, sweep, disposed, host>>

\* Mutant: the music fetch is wrapped in a try/except that skips the step.
music_fetch_swallowed(res) == FALSE

\* download_file(data['background_music_url'], music_path) is not guarded:
\* what it raises leaves through the handler's except clause.
music_fetch_raises(res) == res # "ok"

\* 3. download_file(data['background_music_url'], music_path), then
\* info = get_media_info(current_video) is started.
full_pipeline_music(r) ==
    /\ pc[r] = "music"
    /\ \E fetched \in BOOLEAN :
        LET res == download_file(fetched, job_id[r])
        IN  IF res = "ok"
            THEN /\ fs' = WriteFile(job_id[r], "music.mp3", <<r, "music">>)
                 /\ pc' = [pc EXCEPT ![r] = "music_probe"]
                 /\ eng' = [eng EXCEPT ![r] = "running"]
                 /\ UNCHANGED <<resp, hist>>
            ELSE /\ Note(r, "add_music", res)
                 /\ IF music_fetch_raises(res)
                    THEN Respond(r, 500)
                    ELSE /\ pc' = [pc EXCEPT ![r] = to_subtitles(data[r])]
                         /\ UNCHANGED <<resp, eng>>
                 /\ UNCHANGED fs
    /\ UNCHANGED <<dirs, op, data, job_id, current_video, steps_completed,
                   good, copied, ncleanup, last, cmd, input_files, sweep, disposed, host>>

\* get_media_info(file_path): subprocess.run(cmd) with no timeout returns
\* only when ffprobe exits; the parsed output on status 0, None otherwise.
get_media_info(o) == IF o = "exit0" THEN "info" ELSE "None"

\* duration = float(info['format']['duration']) if info else 60
duration(info) == IF info = "info" THEN "probed" ELSE "60"

\* ffprobe exits; the filter is built from the duration and the mix started.
full_pipeline_music_probe(r) ==
    /\ pc[r] = "music_probe"
    /\ eng[r] = "running"
    /\ \E o \in {"exit0", "exit1"} :
        /\ o = "exit0" => Exists(job_id[r], current_video[r])
        /\ duration(get_media_info(o)) \in {"probed", "60"}
        /\ pc' = [pc EXCEPT ![r] = "music_run"]
    /\ UNCHANGED <<dirs, fs, op, data, job_id, current_video, steps_completed,
                   eng, resp, hist, good, copied, ncleanup, last, cmd, input_files, sweep, disposed, host>>

full_pipeline_music_done(r) ==
    /\ pc[r] = "music_run"
    /\ after_engine(r, "add_music", "03_with_music.mp4",
                    {current_video[r], "music.mp3"}, FALSE, to_subtitles(data[r]))
    /\ UNCHANGED <<dirs, op, data, job_id, copied, ncleanup, last, cmd,
                   input_files, sweep, disposed, host>>

\* 4. the subtitles are written to subtitles.srt and the burn-in started.
full_pipeline_subtitles(r) ==
    /\ pc[r] = "subs"
    /\ IF CanWrite(job_id[r])
       THEN /\ fs' = WriteFile(job_id[r], "subtitles.srt", <<r, "srt">>)
            /\ pc' = [pc EXCEPT ![r] = "subs_run"]
            /\ eng' = [eng EXCEPT ![r] = "running"]
            /\ UNCHANGED <<resp, hist>>
       ELSE /\ Note(r, "add_subtitles", "io_error")
            /\ Respond(r, 500)
            /\ UNCHANGED fs
    /\ UNCHANGED <<dirs, op, data, job_id, current_video, steps_completed,
                   good, copied, ncleanup, last, cmd, input_files, sweep, disposed, host>>

full_pipeline_subtitles_done(r) ==
    /\ pc[r] = "subs_run"
    /\ after_engine(r, "add_subtitles", "04_subtitled.mp4",
                    {current_video[r], "subtitles.srt"}, FALSE, to_resize(data[r]))
    /\ UNCHANGED <<dirs, op, data, job_id, copied, ncleanup, last, cmd,
                   input_files, sweep, disposed, host>>

\* f"resize_{platform}"
resize_name(b) == "resize_" \o b.platform

\* 5. the resize is started.
full_pipeline_resize(r) ==
    /\ pc[r] = "resize"
    /\ pc' = [pc EXCEPT ![r] = "resize_run"]
    /\ eng' = [eng EXCEPT ![r] = "running"]
    /\ UNCHANGED <<dirs, fs, op, data, job_id, current_video, steps_completed,
                   resp, hist, good, copied, ncleanup, last, cmd, input_files, sweep, disposed, host>>

full_pipeline_resize_done(r) ==
    /\ pc[r] = "resize_run"
    /\ after_engine(r, resize_name(data[r]), "05_resized.mp4",
                    {current_video[r]}, FALSE, to_normalize(data[r]))
    /\ UNCHANGED <<dirs, op, data, job_id, copied, ncleanup, last, cmd,
                   input_files, sweep, disposed, host>>

\* 6. the normalisation is started.
full_pipeline_normalize(r) ==
    /\ pc[r] = "norm"
    /\ pc' = [pc EXCEPT ![r] = "norm_run"]
    /\ eng' = [eng EXCEPT ![r] = "running"]
    /\ UNCHANGED <<dirs, fs, op, data, job_id, current_video, steps_completed,
                   resp, hist, good, copied, ncleanup, last, cmd, input_files, sweep, disposed, host>>

full_pipeline_normalize_done(r) ==
    /\ pc[r] = "norm_run"
    /\ after_engine(r, "normalize_audio", "06_normalized.mp4",
                    {current_video[r]}, FALSE, to_final(data[r]))
    /\ UNCHANGED <<dirs, op, data, job_id, copied, ncleanup, last, cmd,
                   input_files, sweep, disposed, host>>

\* shutil.copy(current_video, final_path) raises when the source or the
\* directory is gone.
full_pipeline_copy(r) ==
    /\ pc[r] = "final"
    /\ IF CanProduce(job_id[r], {current_video[r]})
       THEN LET c == fs[job_id[r]][current_video[r]]
            IN  /\ fs' = WriteFile(job_id[r], final_path(job_id[r]), c)
                /\ copied' = [copied EXCEPT ![r] = c]
                /\ pc' = [pc EXCEPT ![r] = "stat"]
                /\ UNCHANGED <<resp, eng, hist>>
       ELSE /\ Note(r, "final", "io_error")
            /\ Respond(r, 500)
            /\ UNCHANGED <<fs, copied>>
    /\ UNCHANGED <<dirs, op, data, job_id, current_video, steps_completed,
                   good, ncleanup, last, cmd, input_files, sweep, disposed, host>>

\* "file_size": final_path.stat().st_size raises when the file is gone;
\* otherwise the success response is returned.
full_pipeline_respond(r) ==
    /\ pc[r] = "stat"
    /\ IF Exists(job_id[r], final_path(job_id[r]))
       THEN Respond(r, 200) /\ UNCHANGED hist
       ELSE Respond(r, 500) /\ Note(r, "final", "io_error")
    /\ UNCHANGED <<dirs, fs, op, data, job_id, current_video, steps_completed,
                   good, copied, ncleanup, last, cmd, input_files, sweep, disposed, host>>

\* The subprocess does not exit by itself.
engine_hangs(r) ==
    /\ eng[r] = "running"
    /\ eng' = [eng EXCEPT ![r] = "hung"]
    /\ UNCHANGED <<dirs, fs, op, pc, data, job_id, current_video,
                   steps_completed, resp, hist, good, copied, ncleanup, last, cmd, input_files, sweep, disposed, host>>

(***************************************************************************)
(* /probe                                                                  *)
(***************************************************************************)
\* job_id = str(uuid.uuid4())[:8]; job_dir = get_job_dir(job_id); the
\* request must name a url or a job_id.
probe_media_create(r) ==
    /\ pc[r] = "idle"
    /\ \E b \in ProbeBodies, j \in JobIds :
        /\ op' = [op EXCEPT ![r] = "probe"]
        /\ data' = [data EXCEPT ![r] = b]
        /\ job_id' = [job_id EXCEPT ![r] = j]
        /\ dirs' = get_job_dir(dirs, j)
        /\ pc' = [pc EXCEPT ![r] = "probe_fetch"]
    /\ UNCHANGED <<fs, current_video, steps_completed, eng, resp, hist, good,
                   copied, ncleanup, last, cmd, input_files, sweep, disposed, host>>

\* download_file(..., file_path) when url or job_id is given, else 400;
\* then info = get_media_info(file_path) is started.
probe_media_fetch(r) ==
    /\ pc[r] = "probe_fetch"
    /\ IF data[r].url = "" /\ data[r].job_id = ""
       THEN /\ Note(r, "probe", "missing_source")
            /\ Respond(r, 400)
            /\ UNCHANGED fs
       ELSE \E fetched \in BOOLEAN :
            LET res == download_file(fetched, job_id[r])
            IN  IF res = "ok"
                THEN /\ fs' = WriteFile(job_id[r], "probe_file", <<r, "probe">>)
                     /\ pc' = [pc EXCEPT ![r] = "probe_run"]
                     /\ eng' = [eng EXCEPT ![r] = "running"]
                     /\ UNCHANGED <<resp, hist>>
                ELSE /\ Note(r, "probe", res)
                     /\ Respond(r, 500)
                     /\ UNCHANGED fs
    /\ UNCHANGED <<dirs, op, data, job_id, current_video, steps_completed,
                   good, copied, ncleanup, last, cmd, input_files, sweep, disposed, host>>

\* ffprobe exits; shutil.rmtree(job_dir) raises when the directory is gone;
\* otherwise the success response carries info.
probe_media_done(r) ==
    /\ pc[r] = "probe_run"
    /\ eng[r] = "running"
    /\ \E o \in {"exit0", "exit1"} :
        /\ o = "exit0" => Exists(job_id[r], "probe_file")
        /\ IF job_id[r] \in dirs
           THEN /\ dirs' = dirs \ {job_id[r]}
                /\ fs' = rmtree(fs, job_id[r])
                /\ Note(r, "probe", get_media_info(o))
                /\ Respond(r, 200)
           ELSE /\ Note(r, "probe", "io_error")
                /\ Respond(r, 500)
                /\ UNCHANGED <<dirs, fs>>
    /\ UNCHANGED <<op, data, job_id, current_video, steps_completed, good,
                   copied, ncleanup, last, cmd, input_files, sweep, disposed, host>>

(***************************************************************************)
(* /merge, /concat, /resize and /trim                                      *)
(***************************************************************************)
\* An optional field of request.json: <<>> when the key is absent, <<v>>
\* when it is given.  data.get(key, default):
get(field, default) == IF field = <<>> THEN default ELSE field[1]

\* POST /merge bodies.
MergeBodies ==
    [video_url : {"", "url"}, video_job_id : {"", "abc123"},
     audio_base64 : {"", "b64", "malformed"}, audio_url : {"", "url"}]

\* The part of every single-step handler up to its first source check:
\* data = request.json; job_id = str(uuid.uuid4())[:8];
\* job_dir = get_job_dir(job_id).
create(r, o, b, next) ==
    /\ pc[r] = "idle"
    /\ \E j \in JobIds :
        /\ job_id' = [job_id EXCEPT ![r] = j]
        /\ dirs' = get_job_dir(dirs, j)
    /\ op' = [op EXCEPT ![r] = o]
    /\ data' = [data EXCEPT ![r] = b]
    /\ pc' = [pc EXCEPT ![r] = next]
    /\ UNCHANGED <<fs, current_video, steps_completed, eng, resp, hist, good,
                   copied, ncleanup, last, cmd, input_files, sweep, disposed, host>>

\* A source resolution that failed raises, and the handler's except clause
\* answers 500.
fails(r, step, res) ==
    /\ Note(r, step, res)
    /\ Respond(r, 500)
    /\ UNCHANGED <<fs, cmd>>

\* A required input for which no accepted source field is present:
\* return jsonify({"success": False, "error": "... required"}), 400.
missing(r, step) ==
    /\ Note(r, step, "missing_source")
    /\ Respond(r, 400)
    /\ UNCHANGED <<fs, cmd>>

\* result = run_ffmpeg(cmd) is started with the arguments c.
start_engine(r, c) ==
    /\ cmd' = [cmd EXCEPT ![r] = c]
    /\ eng' = [eng EXCEPT ![r] = "running"]
    /\ pc' = [pc EXCEPT ![r] = "run"]
    /\ UNCHANGED <<resp, hist>>

\* The video of /merge, /resize and /trim: video_url or video_job_id is
\* downloaded to input_video.mp4, else 400.
resolve_video(r, next) ==
    IF data[r].video_url = "" /\ data[r].video_job_id = ""
    THEN missing(r, "video")
    ELSE \E fetched \in BOOLEAN :
         LET res == download_file(fetched, job_id[r])
         IN  IF res = "ok"
             THEN /\ fs' = WriteFile(job_id[r], "input_video.mp4", <<r, "video">>)
                  /\ pc' = [pc EXCEPT ![r] = next]
                  /\ UNCHANGED <<resp, eng, hist, cmd>>
             ELSE fails(r, "video", res)

merge_audio_video_create(r) ==
    \E b \in MergeBodies : create(r, "merge", b, "merge_video")

merge_audio_video_video(r) ==
    /\ pc[r] = "merge_video"
    /\ resolve_video(r, "merge_audio")
    /\ UNCHANGED <<dirs, op, data, job_id, current_video, steps_completed,
                   good, copied, ncleanup, last, input_files, sweep, disposed, host>>

\* The audio of /merge: audio_base64 is decoded or audio_url is downloaded
\* to input_audio.mp3, else 400; then cmd is built and run.
merge_audio_video_audio(r) ==
    /\ pc[r] = "merge_audio"
    /\ IF data[r].audio_base64 = "" /\ data[r].audio_url = ""
       THEN missing(r, "audio")
       ELSE \E fetched \in BOOLEAN :
            LET res == IF data[r].audio_base64 # ""
                       THEN save_base64_file(data[r].audio_base64, job_id[r])
                       ELSE download_file(fetched, job_id[r])
            IN  IF res = "ok"
                THEN /\ fs' = WriteFile(job_id[r], "input_audio.mp3", <<r, "audio">>)
                     /\ start_engine(r, [i |-> {"input_video.mp4", "input_audio.mp3"},
                                         filter_complex |-> "[1:a]volume=1.0[a]"])
                ELSE fails(r, "audio", res)
    /\ UNCHANGED <<dirs, op, data, job_id, current_video, steps_completed,
                   good, copied, ncleanup, last, input_files, sweep, disposed, host>>

\* One entry of "videos": {"url": ...} | {"job_id": ...} | {"base64": ...},
\* or an entry with none of the three.
ClipSources ==
    {[url |-> "url", job_id |-> "", base64 |-> ""],
     [url |-> "", job_id |-> "abc123", base64 |-> ""],
     [url |-> "", job_id |-> "", base64 |-> "b64"],
     [url |-> "", job_id |-> "", base64 |-> ""]}

\* POST /concat bodies: up to MaxClips videos, and a transition that is
\* absent or one of the documented values.
ConcatBodies ==
    [videos : UNION {[1..n -> ClipSources] : n \in 0..MaxClips},
     transition : {<<>>, <<"none">>, <<"fade">>, <<"dissolve">>}]

\* One stage of a filter graph: "[in1][in2]f[out]".
stage(ins, f, out) == [in |-> ins, f |-> f, out |-> out]

xfade == "xfade=transition=fade:duration=0.5:offset=0"

\* Mutant: every transition takes the raw labels of its two clips.
crossfade_raw(n) ==
    [k \in 1..(2 * n) |->
        LET i == (k - 1) \div 2
        IN  IF k % 2 = 1
            THEN stage(<<str(i) \o ":v">>, "setpts=PTS-STARTPTS", "v" \o str(i))
            ELSE stage(<<str(i) \o ":a">>, "asetpts=PTS-STARTPTS", "a" \o str(i))]
    \o [k \in 1..(n - 1) |->
        LET i == k - 1
        IN  stage(<<"v" \o str(i), "v" \o str(i + 1)>>, xfade, "vout" \o str(i))]
    \o <<stage(<<"vout" \o str(n - 2)>>, "null", "vfinal")>>

\* filter_complex of transition == 'fade' over n inputs, stage by stage:
\* setpts/asetpts of every input, then for i in range(n-1) the xfade of
\* [v0][v1] (i == 0) or [vout{i-1}][v{i+1}] into [vout{i}], then
\* [vout{n-2}]null[vfinal].
crossfade(n) ==
    [k \in 1..(2 * n) |->
        LET i == (k - 1) \div 2
        IN  IF k % 2 = 1
            THEN stage(<<str(i) \o ":v">>, "setpts=PTS-STARTPTS", "v" \o str(i))
            ELSE stage(<<str(i) \o ":a">>, "asetpts=PTS-STARTPTS", "a" \o str(i))]
    \o [k \in 1..(n - 1) |->
        LET i == k - 1
        IN  IF i = 0
            THEN stage(<<"v0", "v1">>, xfade, "vout" \o str(i))
            ELSE stage(<<"vout" \o str(i - 1), "v" \o str(i + 1)>>, xfade,
                       "vout" \o str(i))]
    \o <<stage(<<"vout" \o str(n - 2)>>, "null", "vfinal")>>

concat_videos_create(r) ==
    \E b \in ConcatBodies : create(r, "concat", b, "concat_fetch")

\* if len(videos) < 2: 400.  Then one iteration of the loop over videos:
\* the clip is downloaded or decoded to input_{i}.mp4, or the handler
\* returns 400 for an entry with no source.
concat_videos_fetch(r) ==
    LET videos == data[r].videos
        i == Len(input_files[r])
    IN  /\ pc[r] = "concat_fetch"
        /\ Len(videos) < 2 \/ i < Len(videos)
        /\ IF Len(videos) < 2
           THEN /\ Note(r, "videos", "too_few")
                /\ Respond(r, 400)
                /\ UNCHANGED <<fs, input_files>>
           ELSE LET video == videos[i + 1]
                IN  IF video.url = "" /\ video.job_id = "" /\ video.base64 = ""
                    THEN missing(r, "video") /\ UNCHANGED input_files
                    ELSE \E fetched \in BOOLEAN :
                         LET res == IF video.url # "" \/ video.job_id # ""
                                    THEN download_file(fetched, job_id[r])
                                    ELSE save_base64_file(video.base64, job_id[r])
                         IN  IF res = "ok"
                             THEN /\ fs' = WriteFile(job_id[r], input_path(i),
                                                     <<r, "video">>)
                                  /\ input_files' = [input_files EXCEPT ![r] =
                                                        Append(@, input_path(i))]
                                  /\ UNCHANGED <<pc, resp, eng, hist>>
                             ELSE fails(r, "video", res) /\ UNCHANGED input_files
        /\ UNCHANGED <<dirs, op, data, job_id, current_video, steps_completed,
                       good, copied, ncleanup, last, cmd, sweep, disposed, host>>

\* After the loop: transition == 'none' writes inputs.txt for the concat
\* demuxer; otherwise filter_complex is assigned only when transition ==
\* 'fade', and building cmd from it raises UnboundLocalError for any other
\* value.  Then cmd is run.
concat_videos_build(r) ==
    LET n == Len(input_files[r])
        transition == get(data[r].transition, "none")
        inputs == {input_files[r][k] : k \in 1..n}
    IN  /\ pc[r] = "concat_fetch"
        /\ Len(data[r].videos) >= 2
        /\ n = Len(data[r].videos)
        /\ IF transition = "none"
           THEN IF CanWrite(job_id[r])
                THEN /\ fs' = WriteFile(job_id[r], "inputs.txt", <<r, "list">>)
                     /\ start_engine(r, [i |-> inputs \cup {"inputs.txt"},
                                         filter_complex |-> <<>>])
                ELSE fails(r, "build", "io_error")
           ELSE IF transition = "fade"
                THEN /\ start_engine(r, [i |-> inputs,
                                         filter_complex |-> crossfade(n)])
                     /\ UNCHANGED fs
                ELSE fails(r, "build", "UnboundLocalError")
        /\ UNCHANGED <<dirs, op, data, job_id, current_video, steps_completed,
                       good, copied, ncleanup, last, input_files, sweep,
                       disposed, host>>

\* "video_url": "url" | "video_job_id": "id", or neither.
VideoSources ==
    {[video_url |-> "url", video_job_id |-> ""],
     [video_url |-> "", video_job_id |-> "abc123"],
     [video_url |-> "", video_job_id |-> ""]}

\* presets of resize_video.
resize_presets ==
    [youtube_shorts |-> [width |-> 1080, height |-> 1920],
     tiktok |-> [width |-> 1080, height |-> 1920],
     instagram_reels |-> [width |-> 1080, height |-> 1920],
     instagram_feed |-> [width |-> 1080, height |-> 1080],
     youtube_long |-> [width |-> 1920, height |-> 1080],
     youtube_4k |-> [width |-> 3840, height |-> 2160],
     linkedin |-> [width |-> 1920, height |-> 1080]]

\* POST /resize bodies.
ResizeBodies ==
    {[video_url |-> v.video_url, video_job_id |-> v.video_job_id,
      preset |-> p, width |-> w, height |-> h, fit |-> f] :
        v \in VideoSources, p \in {"", "youtube_shorts", "fax"},
        w \in {<<>>, <<0>>, <<640>>}, h \in {<<>>, <<-2>>, <<360>>},
        f \in {<<>>, <<"contain">>, <<"cover">>, <<"stretch">>}}

\* width, height of resize_video: the preset's when a known preset is
\* named, else data.get('width', 1920), data.get('height', 1080).
dimensions(b) ==
    IF b.preset # "" /\ b.preset \in DOMAIN resize_presets
    THEN resize_presets[b.preset]
    ELSE [width |-> get(b.width, 1920), height |-> get(b.height, 1080)]

\* vf of resize_video: scale to width:height, keeping the aspect ratio and
\* padding (contain) or cropping (cover), or stretching for any other fit.
vf(b) ==
    LET d == dimensions(b)
        fit == get(b.fit, "contain")
    IN  [scale |-> <<d.width, d.height>>,
         force_original_aspect_ratio |->
            IF fit = "contain" THEN "decrease"
            ELSE IF fit = "cover" THEN "increase" ELSE "",
         pad |-> IF fit = "contain" THEN <<d.width, d.height>> ELSE <<>>,
         crop |-> IF fit = "cover" THEN <<d.width, d.height>> ELSE <<>>]

resize_video_create(r) ==
    \E b \in ResizeBodies : create(r, "resize", b, "resize_video")

resize_video_video(r) ==
    /\ pc[r] = "resize_video"
    /\ resolve_video(r, "resize_build")
    /\ UNCHANGED <<dirs, op, data, job_id, current_video, steps_completed,
                   good, copied, ncleanup, last, input_files, sweep, disposed, host>>

\* vf and cmd are built from the dimensions as given, and cmd is run.
resize_video_build(r) ==
    /\ pc[r] = "resize_build"
    /\ start_engine(r, [i |-> {"input_video.mp4"}, vf |-> vf(data[r])])
    /\ UNCHANGED <<dirs, fs, op, data, job_id, current_video, steps_completed,
                   good, copied, ncleanup, last, input_files, sweep, disposed, host>>

\* POST /trim bodies.
TrimBodies ==
    {[video_url |-> v.video_url, video_job_id |-> v.video_job_id,
      start |-> s, end |-> e, duration |-> d] :
        v \in VideoSources, s \in {<<>>, <<10>>},
        e \in {<<>>, <<10>>, <<40>>}, d \in {<<>>, <<0>>, <<30>>}}

\* "if duration:" for a number or None.
truthy(d) == d # <<>> /\ d[1] # 0

\* start = data.get('start', 0); duration = data.get('duration');
\* end = data.get('end'); if duration is None and end is not None:
\* duration = end - start.  cmd has -ss start, and -t duration if duration.
trim_cmd(b) ==
    LET start == get(b.start, 0)
        dur == IF b.duration = <<>> /\ b.end # <<>>
               THEN <<b.end[1] - start>>
               ELSE b.duration
    IN  [i |-> {"input_video.mp4"}, ss |-> start,
         t |-> IF truthy(dur) THEN dur ELSE <<>>]

trim_video_create(r) ==
    \E b \in TrimBodies : create(r, "trim", b, "trim_video")

trim_video_video(r) ==
    /\ pc[r] = "trim_video"
    /\ resolve_video(r, "trim_build")
    /\ UNCHANGED <<dirs, op, data, job_id, current_video, steps_completed,
                   good, copied, ncleanup, last, input_files, sweep, disposed, host>>

trim_video_build(r) ==
    /\ pc[r] = "trim_build"
    /\ start_engine(r, trim_cmd(data[r]))
    /\ UNCHANGED <<dirs, fs, op, data, job_id, current_video, steps_completed,
                   good, copied, ncleanup, last, input_files, sweep, disposed, host>>

\* result = run_ffmpeg(cmd): TimeoutExpired leaves through the except
\* clause, a non-zero exit returns 500, and after exit 0 the output exists.
run_done(r) ==
    /\ pc[r] = "run"
    /\ \E o \in EngineOutcomes(r, cmd[r].i) :
        /\ Note(r, "ffmpeg", o)
        /\ IF run_ffmpeg(o).success
           THEN /\ fs' = WriteFile(job_id[r], output_path(op[r], job_id[r]),
                                   <<r, op[r]>>)
                /\ pc' = [pc EXCEPT ![r] = "size"]
                /\ eng' = [eng EXCEPT ![r] = "idle"]
                /\ UNCHANGED resp
           ELSE /\ Respond(r, 500)
                /\ UNCHANGED fs
    /\ UNCHANGED <<dirs, op, data, job_id, current_video, steps_completed,
                   good, copied, ncleanup, last, cmd, input_files, sweep,
                   disposed, host>>

\* "file_size": output_path.stat().st_size raises when the file is gone;
\* otherwise the success response with output_url is returned.
run_respond(r) ==
    /\ pc[r] = "size"
    /\ IF Exists(job_id[r], output_path(op[r], job_id[r]))
       THEN Respond(r, 200) /\ UNCHANGED hist
       ELSE Respond(r, 500) /\ Note(r, "size", "io_error")
    /\ UNCHANGED <<dirs, fs, op, data, job_id, current_video, steps_completed,
                   good, copied, ncleanup, last, cmd, input_files, sweep,
                   disposed, host>>

(***************************************************************************)
(* /cleanup and /cleanup-all                                               *)
(***************************************************************************)
\* Mutant: the staging root is removed instead of the job's directory.
cleanup_root(j) ==
    /\ ncleanup < MaxCleanups
    /\ ncleanup' = ncleanup + 1
    /\ IF j \in dirs
       THEN /\ dirs' = {}
            /\ fs' = [k \in JobIds |-> EmptyDir]
            /\ last' = Reply("cleanup", j, "none", 200, 1, "true", NoFile)
            /\ disposed' = disposed \cup {j}
       ELSE /\ last' = Reply("cleanup", j, "none", 404, 0, "false", NoFile)
            /\ UNCHANGED <<dirs, fs, disposed>>
    /\ UNCHANGED <<op, pc, data, job_id, current_video, steps_completed,
                   eng, resp, hist, good, copied, cmd, input_files, sweep,
                   host>>

\* if job_dir.exists(): shutil.rmtree(job_dir), success; else 404.
cleanup(j) ==
    /\ ncleanup < MaxCleanups
    /\ ncleanup' = ncleanup + 1
    /\ IF j \in dirs
       THEN /\ dirs' = dirs \ {j}
            /\ fs' = rmtree(fs, j)
            /\ last' = Reply("cleanup", j, "none", 200, 1, "true", NoFile)
            /\ disposed' = disposed \cup {j}
       ELSE /\ last' = Reply("cleanup", j, "none", 404, 0, "false", NoFile)
            /\ UNCHANGED <<dirs, fs, disposed>>
    /\ UNCHANGED <<op, pc, data, job_id, current_video, steps_completed,
                   eng, resp, hist, good, copied, cmd, input_files, sweep,
                   host>>

\* for item in TEMP_DIR.iterdir(): if item.is_dir(): shutil.rmtree(item);
\* count += 1
cleanup_all ==
    /\ ncleanup < MaxCleanups
    /\ ncleanup' = ncleanup + 1
    /\ dirs' = {}
    /\ fs' = [j \in JobIds |-> EmptyDir]
    /\ last' = Reply("cleanup-all", "none", "none", 200, Cardinality(dirs),
                     "true", NoFile)
    /\ UNCHANGED <<op, pc, data, job_id, current_video, steps_completed,
                   eng, resp, hist, good, copied, cmd, input_files, sweep, disposed, host>>

\* file_path = TEMP_DIR / job_id / filename; 404 unless file_path.exists(),
\* else the file is sent.
download_file_route(d, f, j, n) ==
    IF j \in d /\ f[j][n] # NoFile
    THEN [status |-> 200, body |-> f[j][n]]
    ELSE [status |-> 404, body |-> NoFile]

\* GET /download/<job_id>/<filename>: the response of download_file_route
\* on the staging area as it is when the request is served.  The 404 body is
\* {"error": "File not found"} and the 200 response is the file itself, so
\* neither carries a "success" key.
serve_download(j, n) ==
    /\ last' = LET out == download_file_route(dirs, fs, j, n)
               IN  Reply("download", j, n, out.status, 0, "absent", out.body)
    /\ last' # last
    /\ UNCHANGED <<dirs, fs, op, pc, data, job_id, current_video,
                   steps_completed, eng, resp, hist, good, copied, ncleanup,
                   cmd, input_files, sweep, disposed, host>>

\* Requests that have created a job directory, and /probe requests that
\* have removed theirs.
Created == {r \in Reqs : job_id[r] # "none"}
Probed == {r \in Reqs : op[r] = "probe" /\ pc[r] = "done"}

\* /cleanup-all while other requests run.  count = 0 and TEMP_DIR.iterdir()
\* lists the entries of the staging root.
cleanup_all_begin ==
    /\ ncleanup < MaxCleanups
    /\ ~sweep.active
    /\ ncleanup' = ncleanup + 1
    /\ sweep' = [items |-> dirs, count |-> 0, active |-> TRUE,
                 listed |-> dirs, created |-> Created, probed |-> Probed,
                 ncleanup |-> ncleanup + 1]
    /\ UNCHANGED <<dirs, fs, op, pc, data, job_id, current_video,
                   steps_completed, eng, resp, hist, good, copied, last, cmd, input_files,
                   disposed, host>>

\* Mutant: the loop removes the directory without counting it.
cleanup_all_item_uncounted ==
    /\ sweep.active
    /\ \E item \in sweep.items :
        /\ sweep' = [sweep EXCEPT !.items = @ \ {item}]
        /\ IF item \in dirs
           THEN dirs' = dirs \ {item} /\ fs' = rmtree(fs, item)
           ELSE UNCHANGED <<dirs, fs>>
    /\ UNCHANGED <<op, pc, data, job_id, current_video, steps_completed,
                   eng, resp, hist, good, copied, ncleanup, last, cmd, input_files,
                   disposed, host>>

\* One iteration of the loop: if item.is_dir(): shutil.rmtree(item);
\* count += 1.  An entry that has gone since the listing is skipped.
cleanup_all_item ==
    /\ sweep.active
    /\ \E item \in sweep.items :
        /\ IF item \in dirs
           THEN /\ dirs' = dirs \ {item}
                /\ fs' = rmtree(fs, item)
                /\ sweep' = [sweep EXCEPT !.items = @ \ {item},
                                          !.count = @ + 1]
           ELSE /\ sweep' = [sweep EXCEPT !.items = @ \ {item}]
                /\ UNCHANGED <<dirs, fs>>
    /\ UNCHANGED <<op, pc, data, job_id, current_video, steps_completed,
                   eng, resp, hist, good, copied, ncleanup, last, cmd, input_files,
                   disposed, host>>

\* return jsonify({"success": True, "cleaned": count}).
cleanup_all_end ==
    /\ sweep.active
    /\ sweep.items = {}
    /\ last' = Reply("cleanup-all", "none", "none", 200, sweep.count, "true",
                     NoFile)
    /\ sweep' = NoSweep
    /\ UNCHANGED <<dirs, fs, op, pc, data, job_id, current_video,
                   steps_completed, eng, resp, hist, good, copied, ncleanup,
                   cmd, input_files, disposed, host>>

(***************************************************************************)
(* Identifiers that are not job ids                                        *)
(***************************************************************************)
\* TEMP_DIR = Path("/tmp/ffmpeg-service"), as a list of path segments.
TEMP_DIR == <<"tmp", "ffmpeg-service">>

\* Values of <job_id> and <filename> the routes accept besides job ids and
\* artifact names: the converter takes any non-empty text without a slash.
PathIds == {"..", "."}

\* path / segment of pathlib: a "." segment is dropped, ".." is kept.
join(path, segment) == IF segment = "." THEN path ELSE Append(path, segment)

\* The file the operating system reaches through a path: ".." steps to the
\* parent directory.
RECURSIVE resolve(_)
resolve(path) ==
    IF path = <<>> THEN <<>>
    ELSE LET parent == resolve(SubSeq(path, 1, Len(path) - 1))
             segment == path[Len(path)]
         IN  IF segment = ".."
             THEN IF parent = <<>> THEN <<>>
                  ELSE SubSeq(parent, 1, Len(parent) - 1)
             ELSE IF segment = "." THEN parent
             ELSE Append(parent, segment)

\* What exists at a resolved path: "dir", "file" or "none".
kind(path) ==
    IF path = <<>> \/ path = <<"tmp">> THEN "dir"
    ELSE IF Len(path) = 2 /\ path[1] = "tmp"
    THEN IF path = TEMP_DIR THEN (IF host.root THEN "dir" ELSE "none")
         ELSE IF path[2] \in host.tmp THEN "file" ELSE "none"
    ELSE IF Len(path) = 3 /\ SubSeq(path, 1, 2) = TEMP_DIR
    THEN IF path[3] \in dirs THEN "dir" ELSE "none"
    ELSE IF Len(path) = 4 /\ SubSeq(path, 1, 2) = TEMP_DIR
    THEN IF /\ path[3] \in dirs
            /\ path[4] \in FileNames
            /\ fs[path[3]][path[4]] # NoFile
         THEN "file" ELSE "none"
    ELSE "none"

\* The content of the file at a resolved path.
content(path) ==
    IF Len(path) = 4 THEN fs[path[3]][path[4]] ELSE <<"tmp", path[Len(path)]>>

\* download_file_route for any <job_id> and <filename>: file_path =
\* TEMP_DIR / job_id / filename; 404 unless file_path.exists(); send_file
\* sends a file and raises on a directory.
serve_path(id, n) ==
    /\ LET file_path == resolve(join(join(TEMP_DIR, id), n))
           k == kind(file_path)
       IN  last' = IF k = "none"
                   THEN Reply("download", id, n, 404, 0, "absent", NoFile)
                   ELSE IF k = "file"
                   THEN Reply("download", id, n, 200, 0, "absent",
                              content(file_path))
                   ELSE Reply("download", id, n, 500, 0, "absent", NoFile)
    /\ last' # last
    /\ UNCHANGED <<dirs, fs, op, pc, data, job_id, current_video,
                   steps_completed, eng, resp, hist, good, copied, ncleanup,
                   cmd, input_files, sweep, disposed, host>>

\* cleanup for a <job_id> that is not a job id: job_dir = TEMP_DIR / job_id;
\* if job_dir.exists(): shutil.rmtree(job_dir).  "." names the staging
\* root itself; ".." names /tmp, whose entries are removed before the
\* final rmdir of the path raises.
cleanup_path(id) ==
    /\ ncleanup < MaxCleanups
    /\ ncleanup' = ncleanup + 1
    /\ LET job_dir == resolve(join(TEMP_DIR, id))
       IN  IF kind(job_dir) = "none"
           THEN /\ last' = Reply("cleanup", id, "none", 404, 0, "false", NoFile)
                /\ UNCHANGED <<dirs, fs, host>>
           ELSE /\ dirs' = {}
                /\ fs' = [j \in JobIds |-> EmptyDir]
                /\ IF job_dir = TEMP_DIR
                   THEN /\ host' = [host EXCEPT !.root = FALSE]
                        /\ last' = Reply("cleanup", id, "none", 200, 1, "true",
                                         NoFile)
                   ELSE /\ host' = [root |-> FALSE, tmp |-> {}]
                        /\ last' = Reply("cleanup", id, "none", 500, 0,
                                         "absent", NoFile)
    /\ UNCHANGED <<op, pc, data, job_id, current_video, steps_completed,
                   eng, resp, hist, good, copied, cmd, input_files, sweep,
                   disposed>>

\* A /full-pipeline request that arrives when the staging root is gone:
\* job_dir.mkdir(exist_ok=True) raises and the except clause answers 500.
full_pipeline_no_root(r) ==
    /\ pc[r] = "idle"
    /\ ~host.root
    /\ op' = [op EXCEPT ![r] = "full-pipeline"]
    /\ Note(r, "get_job_dir", "io_error")
    /\ Respond(r, 500)
    /\ UNCHANGED <<dirs, fs, data, job_id, current_video, steps_completed,
                   good, copied, ncleanup, last, cmd, input_files, sweep,
                   disposed, host>>

\* The steps of the /full-pipeline handler of request r after its arrival.
full_pipeline(r) ==
    \/ full_pipeline_download(r)
    \/ full_pipeline_merge(r)
    \/ full_pipeline_merge_done(r)
    \/ full_pipeline_music(r)
    \/ full_pipeline_music_probe(r)
    \/ full_pipeline_music_done(r)
    \/ full_pipeline_subtitles(r)
    \/ full_pipeline_subtitles_done(r)
    \/ full_pipeline_resize(r)
    \/ full_pipeline_resize_done(r)
    \/ full_pipeline_normalize(r)
    \/ full_pipeline_normalize_done(r)
    \/ full_pipeline_copy(r)
    \/ full_pipeline_respond(r)

\* The steps of the /probe handler of request r.
probe_media(r) ==
    \/ probe_media_create(r)
    \/ probe_media_fetch(r)
    \/ probe_media_done(r)

\* The service under two concurrent requests and cleanup requests.
Next ==
    \/ \E r \in Reqs :
        \/ \E b \in Bodies : full_pipeline_create(r, b)
        \/ full_pipeline(r)
        \/ probe_media(r)
        \/ engine_hangs(r)
    \/ \E j \in JobIds : cleanup(j)
    \/ cleanup_all

Spec == Init /\ [][Next]_vars

\* One /full-pipeline request, over every request body, with cleanup
\* requests arriving while it runs.
PipelineNext ==
    \/ \E b \in AllBodies : full_pipeline_create("r1", b)
    \/ full_pipeline("r1")
    \/ engine_hangs("r1")
    \/ \E j \in JobIds : cleanup(j)
    \/ cleanup_all

PipelineSpec == Init /\ [][PipelineNext]_vars
\* The life cycle of job directories: requests that create jobs and leave
\* artifacts, /download, /cleanup, and /cleanup-all taken one directory at
\* a time while the other requests go on.
LifecycleBodies == {Body("abc123", "", "", "", "", FALSE),
                    Body("", "", "", "", "", FALSE)}

\* File names /download is asked for: an input and the final artifact the
\* response of /full-pipeline names.
DownloadNames(j) == {"01_video.mp4", final_path(j)}

LifecycleNext ==
    \/ \E r \in Reqs :
        \/ \E b \in LifecycleBodies : full_pipeline_create(r, b)
        \/ full_pipeline_download(r)
        \/ full_pipeline_copy(r)
        \/ full_pipeline_respond(r)
        \/ probe_media(r)
        \/ engine_hangs(r)
    \/ \E j \in JobIds : cleanup(j)
    \/ cleanup_all_begin
    \/ cleanup_all_item
    \/ cleanup_all_end
    \/ \E j \in JobIds : \E n \in DownloadNames(j) : serve_download(j, n)

LifecycleSpec == Init /\ [][LifecycleNext]_vars

\* Jobs, and /download and /cleanup requests whose <job_id> and <filename>
\* range over job ids, artifact names and the other values the routes take.
TraversalNext ==
    \/ \E r \in Reqs :
        \/ \E b \in LifecycleBodies : host.root /\ full_pipeline_create(r, b)
        \/ full_pipeline_no_root(r)
        \/ full_pipeline_download(r)
        \/ full_pipeline_copy(r)
        \/ full_pipeline_respond(r)
    \/ \E j \in JobIds : cleanup(j)
    \/ \E id \in PathIds : cleanup_path(id)
    \/ \E j \in JobIds : \E n \in DownloadNames(j) : serve_download(j, n)
    \/ \E id \in PathIds : \E n \in OutsideFiles \cup JobIds : serve_path(id, n)

TraversalSpec == Init /\ [][TraversalNext]_vars

\* One request to /merge, /concat, /resize or /trim, over the request
\* bodies of each, with /cleanup requests arriving while it runs.
OpsNext ==
    \/ merge_audio_video_create("r1")
    \/ merge_audio_video_video("r1")
    \/ merge_audio_video_audio("r1")
    \/ concat_videos_create("r1")
    \/ concat_videos_fetch("r1")
    \/ concat_videos_build("r1")
    \/ resize_video_create("r1")
    \/ resize_video_video("r1")
    \/ resize_video_build("r1")
    \/ trim_video_create("r1")
    \/ trim_video_video("r1")
    \/ trim_video_build("r1")
    \/ run_done("r1")
    \/ run_respond("r1")
    \/ engine_hangs("r1")
    \/ \E j \in JobIds : cleanup(j)

OpsSpec == Init /\ [][OpsNext]_vars

\* The steps of whichever handler request r is in; the handler thread keeps
\* running, and run_ffmpeg's timeout ends the wait for a hung engine.
Handler(r) ==
    \/ full_pipeline(r)
    \/ probe_media_fetch(r)
    \/ probe_media_done(r)

\* One request, sent to /full-pipeline or to /probe, whose handler is
\* scheduled fairly.
LiveNext ==
    \/ PipelineNext
    \/ probe_media("r1")

LiveSpec == Init /\ [][LiveNext]_vars /\ WF_vars(Handler("r1"))

(***************************************************************************)
(* Properties                                                              *)
(***************************************************************************)
Pipelines == {r \in Reqs : op[r] = "full-pipeline"}

Entries(r) == {hist[r][i] : i \in DOMAIN hist[r]}

Logged(r) == {steps_completed[r][i] : i \in DOMAIN steps_completed[r]}

Succeeded(e) == e[2] \in {"ok", "exit0"}

StepOrder(b) ==
    <<"download_video", "merge_tts", "add_music", "add_subtitles",
      "resize_" \o b.platform, "normalize_audio">>

Position(b, s) == CHOOSE i \in 1..6 : StepOrder(b)[i] = s

IsStep(b, s) == \E i \in 1..6 : StepOrder(b)[i] = s

OptionalSteps(b) == {StepOrder(b)[i] : i \in 3..6}

\* The artifact each step is specified to produce.
OutputOf(s) ==
    CASE s = "download_video" -> "01_video.mp4"
      [] s = "merge_tts" -> "02_merged.mp4"
      [] s = "add_music" -> "03_with_music.mp4"
      [] s = "add_subtitles" -> "04_subtitled.mp4"
      [] s = "normalize_audio" -> "06_normalized.mp4"
      [] OTHER -> "05_resized.mp4"

\* The request asks for step s.
Requested(b, s) ==
    CASE s = "download_video" -> b.video_job_id # ""
      [] s = "merge_tts" -> b.audio_base64 # ""
      [] s = "add_music" -> b.background_music_url # ""
      [] s = "add_subtitles" -> b.subtitles # ""
      [] s = "normalize_audio" -> b.normalize
      [] OTHER -> b.platform # ""

\* The request asks for step s and the step can be run (the platform is a
\* known preset).
Runnable(b, s) ==
    /\ Requested(b, s)
    /\ s = "resize_" \o b.platform =>
        b.platform \in {"youtube_shorts", "tiktok", "instagram_reels",
                        "instagram_feed", "youtube_long"}

RECURSIVE LastSuccess(_)
LastSuccess(h) ==
    IF h = <<>> THEN "none"
    ELSE IF Succeeded(h[Len(h)]) THEN OutputOf(h[Len(h)][1])
    ELSE LastSuccess(SubSeq(h, 1, Len(h) - 1))

\* Request r has made no final copy, and its directory holds no final
\* artifact (other than one copied there by another job that was given the
\* same identifier).
NoFinal(r) ==
    /\ copied[r] = NoFile
    /\ \/ fs[job_id[r]][final_path(job_id[r])] = NoFile
       \/ \E q \in Reqs \ {r} : job_id[q] = job_id[r] /\ copied[q] # NoFile

Aborted(r, i) ==
    /\ i = Len(hist[r])
    /\ pc[r] = "done"
    /\ eng[r] = "idle"
    /\ resp[r] \in {400, 500}
    /\ NoFinal(r)

\* C1: in full-pipeline the current-artifact pointer is always the output
\* of the most recent step that succeeded (the downloaded video when only
\* the download has succeeded, nothing before that); so it moves only at a
\* step that succeeded and never to the output of a failed step.
C1_PointerIsLastSuccess ==
    \A r \in Pipelines : current_video[r] = LastSuccess(hist[r])

C1_Witness ==
    \E r \in Pipelines :
        /\ pc[r] = "final"
        /\ <<"add_music", "exit0">> \in Entries(r)
        /\ <<"add_subtitles", "exit1">> \in Entries(r)
        /\ <<"normalize_audio", "exit1">> \in Entries(r)
        /\ current_video[r] = "03_with_music.mp4"

\* C2: once the engine invocation of an optional step has failed (a
\* non-zero exit or a timeout), the finished job has attempted every later
\* step it was asked for, reports success, does not log the failed step,
\* and its final artifact is a copy of the last artifact it produced.
C2_OptionalFailureTolerated ==
    \A r \in Pipelines : \A i \in DOMAIN hist[r] :
        LET s == hist[r][i][1]
            b == data[r]
        IN  (/\ s \in OptionalSteps(b)
             /\ hist[r][i][2] \in {"exit1", "timeout"}
             /\ pc[r] = "done")
            => /\ resp[r] = 200
               /\ s \notin Logged(r)
               /\ copied[r] = good[r]
               /\ \A k \in 3..6 :
                    (k > Position(b, s) /\ Runnable(b, StepOrder(b)[k]))
                    => \E e \in Entries(r) : e[1] = StepOrder(b)[k]

\* C3: when the video download or the narration merge fails, the job is
\* over at that step: nothing is attempted after it, the response is a
\* failure, and the job's directory holds no final_<jobId> artifact.
C3_MandatoryFailureAborts ==
    \A r \in Pipelines : \A i \in DOMAIN hist[r] :
        LET e == hist[r][i]
        IN  (\/ e[1] = "download_video" /\ e[2] # "ok"
             \/ e[1] = "merge_tts" /\ e[2] # "exit0")
            => Aborted(r, i)

C3_Witness ==
    \E r \in Pipelines :
        /\ hist[r] = <<(<<"download_video", "ok">>), (<<"merge_tts", "exit1">>)>>
        /\ resp[r] = 500
        /\ data[r].normalize

\* C4: an optional step whose engine invocation exceeds its timeout is a
\* failed step like any other: it is not logged, the pipeline goes on and
\* the job reports success.
C4_TimeoutIsTolerated ==
    \A r \in Pipelines : \A i \in DOMAIN hist[r] :
        (/\ hist[r][i][1] \in OptionalSteps(data[r])
         /\ hist[r][i][2] = "timeout")
        => /\ hist[r][i][1] \notin Logged(r)
           /\ pc[r] = "done" => resp[r] = 200

\* C5: a successful run logs exactly the steps that took effect, in the
\* fixed order: a step is logged once iff it was requested and succeeded,
\* a step that was not requested is never attempted, and the request with
\* only a video reference, a narration, platform youtube_shorts and
\* normalize, all steps succeeding, logs download_video, merge_tts,
\* resize_youtube_shorts, normalize_audio.
C5_LogIsStepsThatTookEffect ==
    \A r \in Pipelines :
        resp[r] = 200 =>
            LET b == data[r]
                TookEffect(s) ==
                    Requested(b, s) /\ \E e \in Entries(r) : e[1] = s /\ Succeeded(e)
            IN  /\ steps_completed[r] = SelectSeq(StepOrder(b), TookEffect)
                /\ \A e \in Entries(r) : IsStep(b, e[1]) /\ Requested(b, e[1])
                /\ (/\ b = Body("abc123", "b64", "", "", "youtube_shorts", TRUE)
                    /\ \A e \in Entries(r) : Succeeded(e))
                   => steps_completed[r] =
                        <<"download_video", "merge_tts",
                          "resize_youtube_shorts", "normalize_audio">>

C5_Witness ==
    \E r \in Pipelines :
        /\ resp[r] = 200
        /\ data[r] = Body("abc123", "b64", "", "", "youtube_shorts", TRUE)
        /\ steps_completed[r] =
            <<"download_video", "merge_tts", "resize_youtube_shorts",
              "normalize_audio">>

\* C6: a fetch that fails (the video or the background music) ends the job
\* at once: the fetch is made once, nothing is attempted after it, the
\* response is a failure and no final artifact exists.
C6_FailedFetchAborts ==
    \A r \in Pipelines : \A i \in DOMAIN hist[r] :
        hist[r][i][2] = "fetch_error"
        => /\ Aborted(r, i)
           /\ resp[r] = 500
           /\ \A k \in DOMAIN hist[r] : k # i => hist[r][k][1] # hist[r][i][1]

C6_Witness ==
    \E r \in Pipelines :
        /\ <<"merge_tts", "exit0">> \in Entries(r)
        /\ hist[r][Len(hist[r])] = <<"add_music", "fetch_error">>
        /\ data[r].subtitles # ""
        /\ resp[r] = 500

\* C7: the identifier a job is created with is not the identifier of a
\* staging directory that exists.
C7_FreshIdentifier ==
    [][\A r \in Reqs :
        (pc[r] = "idle" /\ pc'[r] # "idle") => job_id'[r] \notin dirs]_vars

\* Request r takes a step in which its handler opens a file of the job's
\* directory for writing: the narration and the subtitles are opened on
\* entry, a fetched source once the fetch has succeeded.  (An engine output
\* and the final copy are written only after their inputs, in the same
\* directory, have been read.)
WritesArtifact(r) ==
    /\ pc'[r] # pc[r]
    /\ \/ pc[r] \in {"merge", "subs"}
       \/ /\ pc[r] \in {"download", "music", "probe_fetch"}
          /\ \/ hist'[r] = hist[r]
             \/ hist'[r][Len(hist'[r])][2] \notin {"fetch_error", "missing_source"}

\* C8: whenever a job writes an artifact, its staging directory exists.
C8_DirectoryExistsAtWrite ==
    [][\A r \in Reqs : WritesArtifact(r) => job_id[r] \in dirs]_vars

\* C9: dispose(jobId) leaves every other job's directory and artifacts as
\* they were: what retrieval returns for them does not change.
C9_CleanupLeavesOtherJobs ==
    [][\A j \in JobIds :
        cleanup(j) =>
            \A k \in JobIds \ {j} :
                /\ k \in dirs' <=> k \in dirs
                /\ \A n \in FileNames :
                    download_file_route(dirs', fs', k, n)
                        = download_file_route(dirs, fs, k, n)]_vars

C9_Witness ==
    /\ last.op = "cleanup"
    /\ last.status = 200
    /\ \E r, q \in Pipelines :
        /\ job_id[r] = last.id
        /\ job_id[q] # last.id
        /\ job_id[r] \notin dirs
        /\ resp[q] = 200
        /\ download_file_route(dirs, fs, job_id[q], final_path(job_id[q])).status = 200

\* C10: every request that has arrived is eventually answered.
C10_EveryRequestCompletes ==
    \A r \in Reqs : (pc[r] # "idle") ~> (pc[r] = "done")

(***************************************************************************)
(* Responses of the job life-cycle endpoints                               *)
(***************************************************************************)
\* The "success" key of the JSON body a handler returns with a status:
\* every return of the POST handlers is jsonify({"success": ...}).
success_flag(status) == IF status = 200 THEN "true" ELSE "false"

\* C11: every operation returns a result that carries a success flag on
\* every outcome, true when it succeeded and false when it failed, so every
\* error reaches the caller as a structured failure.
C11_EveryResultHasSuccessFlag ==
    /\ \A r \in Reqs :
        resp[r] # 0 => success_flag(resp[r]) \in {"true", "false"}
    /\ last.op # "none" =>
        /\ last.success \in {"true", "false"}
        /\ last.success = "false" <=> last.status # 200

\* C12: /cleanup of a job whose directory exists removes it and reports
\* success, /cleanup of a job with no directory reports 404 and changes
\* nothing; so once a job id has been disposed, every further /cleanup of
\* it and every /download under it reports 404.
C12_DisposeIsIdempotent ==
    [][\A j \in JobIds :
        /\ cleanup(j) =>
            /\ IF j \in dirs
               THEN j \notin dirs' /\ last'.status = 200
               ELSE last'.status = 404 /\ dirs' = dirs /\ fs' = fs
            /\ j \in disposed => last'.status = 404
        /\ \A n \in DownloadNames(j) :
            (serve_download(j, n) /\ j \in disposed) => last'.status = 404
      ]_vars

\* No request has created a job directory since the /cleanup-all in
\* progress listed the staging root.
NoJobCreatedSince == Created = sweep.created

\* No other request has removed a job directory since then: no /cleanup
\* was served and no /probe removed its own directory.
NoJobRemovedSince == ncleanup = sweep.ncleanup /\ Probed = sweep.probed

\* C13 as stated: when /cleanup-all completes with no job created
\* concurrently, no job directory remains and the count it returns is the
\* number of job directories that existed when it started.
C13_CleanupAllCountsListed ==
    [][(cleanup_all_end /\ NoJobCreatedSince) =>
        /\ dirs' = {}
        /\ last'.cleaned = Cardinality(sweep.listed)]_vars

\* C13 amended: when /cleanup-all completes with no job created and no job
\* directory removed by another request concurrently, no job directory
\* remains and the count it returns is the number of job directories that
\* existed when it started.
C13_CleanupAllCountsListedUndisturbed ==
    [][(cleanup_all_end /\ NoJobCreatedSince /\ NoJobRemovedSince) =>
        /\ dirs' = {}
        /\ last'.cleaned = Cardinality(sweep.listed)]_vars

\* An undisturbed /cleanup-all has removed two job directories and is
\* about to answer.
C13_Witness ==
    /\ sweep.active
    /\ sweep.items = {}
    /\ Cardinality(sweep.listed) = 2
    /\ sweep.count = 2
    /\ NoJobCreatedSince
    /\ NoJobRemovedSince

\* Requests whose /full-pipeline response reported success; its output_url
\* is /download/<job_id>/final_<job_id>.mp4.
Published == {r \in Reqs : op[r] = "full-pipeline" /\ resp[r] = 200}

\* C20: once an operation has reported success with an output_url, the
\* /download of that job id and name returns that artifact, not 404, as
\* long as no /cleanup of the job and no /cleanup-all has run, and the name
\* is the operation's role-prefixed name; a /download of a name for which
\* the job's directory has no file returns 404.
C20_PublishedArtifactRetrievable ==
    [][\A j \in JobIds : \A n \in DownloadNames(j) :
        serve_download(j, n) =>
            /\ \A r \in Published :
                (job_id[r] = j /\ n = final_path(j) /\ ncleanup = 0) =>
                    /\ last'.status = 200
                    /\ last'.body = copied[r]
            /\ (j \notin dirs \/ fs[j][n] = NoFile) => last'.status = 404
      ]_vars

(***************************************************************************)
(* Artifacts and the initial state of a /full-pipeline job                 *)
(***************************************************************************)
\* C17: within one job an artifact is never rewritten once produced: every
\* source resolution, every step and the final copy write to a path that
\* holds no file yet, so it differs from the step's inputs and from every
\* earlier artifact, and earlier outputs stay intact while later steps run.
C17_ArtifactsNeverRewritten ==
    [][\A j \in JobIds : \A n \in FileNames :
        fs[j][n] # NoFile => (fs'[j][n] = fs[j][n] \/ j \notin dirs')]_vars

\* A job that ran merge, music, subtitles, resize and normalize has its
\* final copy next to every earlier artifact, each as it was written.
C17_Witness ==
    \E r \in Pipelines :
        LET d == fs[job_id[r]]
        IN  /\ d["01_video.mp4"] = <<r, "download_video">>
            /\ d["02_merged.mp4"] = <<r, "download_video", "merge_tts">>
            /\ d["03_with_music.mp4"] # NoFile
            /\ d["04_subtitled.mp4"] # NoFile
            /\ d["05_resized.mp4"] # NoFile
            /\ d["06_normalized.mp4"] # NoFile
            /\ d[final_path(job_id[r])] = d["06_normalized.mp4"]

\* The /full-pipeline job of r has resolved its primary input video and
\* has taken no step since.
InitialState(r) ==
    /\ r \in Pipelines
    /\ hist[r] = <<(<<"download_video", "ok">>)>>

\* C18 as stated: in the initial state after the primary input video is
\* resolved, the pointer is the resolved video and the step log is empty.
C18_InitialLogEmpty ==
    \A r \in Reqs :
        InitialState(r) =>
            /\ current_video[r] = "01_video.mp4"
            /\ steps_completed[r] = <<>>

\* C18 amended: in the initial state after the primary input video is
\* resolved, the pointer is the resolved video and the step log holds the
\* one entry "download_video".
C18_InitialLogHasDownload ==
    \A r \in Reqs :
        InitialState(r) =>
            /\ current_video[r] = "01_video.mp4"
            /\ steps_completed[r] = <<"download_video">>

\* A job in its initial state whose first step is under way.
C18_Witness ==
    \E r \in Reqs : InitialState(r) /\ pc[r] = "merge_run"

(***************************************************************************)
(* /concat, /resize, /trim and /merge                                      *)
(***************************************************************************)
\* /concat requests with transition fade whose cmd has been built.
FadeBuilt ==
    {r \in Reqs : /\ op[r] = "concat"
                  /\ cmd[r] # NoCmd
                  /\ data[r].transition = <<"fade">>}

\* The crossfade stages of a filter graph, in order.
IsXfade(st) == st.f = xfade
Transitions(filter) == SelectSeq(filter, IsXfade)

\* C14: for /concat with transition fade over N >= 2 clips the filter has
\* exactly N-1 crossfade stages; stage 0 takes the labels of clips 0 and 1,
\* every stage i > 0 takes the output label of stage i-1 on the left and
\* clip i+1 on the right, and the output of stage N-2 is the one pad wired
\* to the final label.
C14_CrossfadeChain ==
    \A r \in FadeBuilt :
        LET N == Len(data[r].videos)
            filter == cmd[r].filter_complex
            t == Transitions(filter)
            final == filter[Len(filter)]
        IN  /\ N >= 2
            /\ Len(t) = N - 1
            /\ t[1].in = <<"v0", "v1">>
            /\ \A k \in 2..(N - 1) :
                /\ t[k].in[1] = t[k - 1].out
                /\ t[k].in[2] = "v" \o str(k)
            /\ \A k \in 1..(N - 1) : \A m \in 1..(N - 1) :
                t[k].out = t[m].out => k = m
            /\ final.in = <<t[N - 1].out>>
            /\ final.out = "vfinal"
            /\ \A k \in 1..Len(filter) :
                "vfinal" \in {filter[k].out} \cup {filter[k].in[m] : m \in DOMAIN filter[k].in}
                    => k = Len(filter)

\* A fade over three clips has been built: two chained transitions.
C14_Witness ==
    \E r \in FadeBuilt :
        /\ Len(data[r].videos) = 3
        /\ Len(Transitions(cmd[r].filter_complex)) = 2
        /\ pc[r] = "run"

\* Entries of "videos" that name no source.
NoSource(video) == video.url = "" /\ video.job_id = "" /\ video.base64 = ""

\* width or height of a /resize request is not positive.
NonPositive(b) == dimensions(b).width <= 0 \/ dimensions(b).height <= 0

\* C15: building a filter expression never fails on valid input (/concat
\* of two or more resolvable clips with transition none, fade or dissolve;
\* /resize with any fit and positive dimensions), and invalid input (fewer
\* than two clips, a non-positive width or height) is rejected with a 400
\* before any expression is built or the engine is invoked.
C15_BuilderTotalAndValidating ==
    \A r \in Reqs :
        /\ op[r] = "concat" =>
            IF Len(data[r].videos) >= 2
            THEN (\A k \in DOMAIN data[r].videos : ~NoSource(data[r].videos[k]))
                    => <<"build", "UnboundLocalError">> \notin Entries(r)
            ELSE cmd[r] = NoCmd /\ (pc[r] = "done" => resp[r] = 400)
        /\ (op[r] = "resize" /\ NonPositive(data[r])) =>
            /\ cmd[r] = NoCmd
            /\ pc[r] = "done" => resp[r] = 400

\* The request of r lacks every accepted source field of a required input.
MissingSource(r) ==
    CASE op[r] = "merge" ->
            \/ data[r].video_url = "" /\ data[r].video_job_id = ""
            \/ data[r].audio_base64 = "" /\ data[r].audio_url = ""
      [] op[r] \in {"resize", "trim"} ->
            data[r].video_url = "" /\ data[r].video_job_id = ""
      [] op[r] = "concat" ->
            \E k \in DOMAIN data[r].videos : NoSource(data[r].videos[k])
      [] op[r] = "full-pipeline" -> data[r].video_job_id = ""
      [] op[r] = "probe" -> data[r].url = "" /\ data[r].job_id = ""
      [] OTHER -> FALSE

\* C16: a request in which no accepted source field of a required input is
\* present is answered with a 400, never with a resolver or engine failure,
\* and no engine invocation is made for it.
C16_MissingSourceIsCallerError ==
    \A r \in Reqs :
        MissingSource(r) =>
            /\ cmd[r] = NoCmd
            /\ eng[r] = "idle"
            /\ pc[r] = "done" => resp[r] = 400

\* C19: a /trim request with start and end given and no duration invokes
\* the engine with the duration limit end - start; when duration is given
\* the limit is that duration.
C19_TrimDuration ==
    \A r \in Reqs :
        (op[r] = "trim" /\ cmd[r] # NoCmd) =>
            LET b == data[r]
            IN  /\ (b.start # <<>> /\ b.end # <<>> /\ b.duration = <<>>)
                    => cmd[r].t = <<b.end[1] - b.start[1]>>
                /\ b.duration # <<>> => cmd[r].t = b.duration

(***************************************************************************)
(* Paths reached by /download and /cleanup                                 *)
(***************************************************************************)
\* The path lies strictly below the directory.
Inside(path, dir) ==
    Len(path) > Len(dir) /\ SubSeq(path, 1, Len(dir)) = dir

\* The path is a job directory: a direct entry of the staging root.
IsJobDir(path) == Len(path) = Len(TEMP_DIR) + 1 /\ Inside(path, TEMP_DIR)

\* C21: for every <job_id> and <filename> that /download and /cleanup
\* accept, the file sent lies inside that identifier's job directory and
\* what is removed is one job directory under the staging root: no value,
\* such as "..", makes /download send a file from outside a job directory
\* or makes /cleanup remove anything else.
C21_PathsStayInsideStagingRoot ==
    /\ host = NoDamage
    /\ (last.op = "download" /\ last.status = 200) =>
        LET job_dir == resolve(join(TEMP_DIR, last.id))
        IN  /\ IsJobDir(job_dir)
            /\ Inside(resolve(join(join(TEMP_DIR, last.id), last.name)), job_dir)
    /\ (last.op = "cleanup" /\ last.status # 404) =>
        IsJobDir(resolve(join(TEMP_DIR, last.id)))
====
